---- MODULE Spec2Model ----
(***************************************************************************)
(* Synchronisation pipeline of RoboticsMap: scripts/backfill.py,           *)
(* scripts/update.py and scripts/export.py.                                *)
(*                                                                         *)
(* Strings that the code takes apart are sequences of tokens: an           *)
(* identifier "https://openalex.org/W1" is <<OPENALEX_PREFIX, "W1">>, the   *)
(* empty string is <<>>.  A publication date is <<year>> or                *)
(* <<year, "T00:00:00">> (a day followed by what lies beyond its tenth     *)
(* character), the empty string is <<>>.  Python's None is the string      *)
(* None for text and number fields; for token sequences None and "" are    *)
(* both <<>> (the code reads them through `x or ""`).                      *)
(***************************************************************************)
EXTENDS Integers, Sequences, FiniteSets, TLC

(***************************************************************************)
(* Program constants                                                       *)
(***************************************************************************)
OPENALEX_PREFIX == "https://openalex.org/"
DOI_PREFIX == "https://doi.org/"
WS == " "
None == "None"

FROM_DATE == <<2018>>
TO_DATE == <<2026>>
PER_PAGE == 200
CHECKPOINT_INTERVAL == 1000

(***************************************************************************)
(* Bounds of the model                                                     *)
(***************************************************************************)
MaxRuns == 2
MaxTail == 1
BulkPages == 5
MaxAssociations == 4

(***************************************************************************)
(* String helpers                                                          *)
(***************************************************************************)
\* s.replace(tok, ""): every occurrence of tok is removed
Replace(s, tok) == SelectSeq(s, LAMBDA t : t # tok)

RECURSIVE LStrip(_)
LStrip(s) == IF s # <<>> /\ Head(s) = WS THEN LStrip(Tail(s)) ELSE s

RECURSIVE RStrip(_)
RStrip(s) ==
    IF s # <<>> /\ s[Len(s)] = WS THEN RStrip(SubSeq(s, 1, Len(s) - 1)) ELSE s

\* s.strip(): leading and trailing whitespace removed
Strip(s) == RStrip(LStrip(s))

\* s.startswith("http")
StartsWithHttp(s) == s # <<>> /\ Head(s) \in {OPENALEX_PREFIX, DOI_PREFIX}

\* s[:10]: a date keeps its day, and loses what follows it
Trunc10(s) == IF s = <<>> THEN <<>> ELSE <<Head(s)>>

\* x or ""
OrEmpty(x) == IF x = None THEN "" ELSE x

\* x or None
OrNone(x) == IF x = "" THEN None ELSE x

\* order of the day-truncated date strings; "" is below every date
DateLeq(a, b) == a = <<>> \/ (b # <<>> /\ a[1] <= b[1])

(***************************************************************************)
(* The store: three tables.  A table with a primary key is a function from *)
(* the key to the other columns.                                           *)
(***************************************************************************)
EmptyTable == [k \in {} |-> None]

\* create_schema on a fresh database file
EmptyDB ==
    [papers |-> EmptyTable, institutions |-> EmptyTable, paper_institutions |-> {}]

\* INSERT OR REPLACE INTO <table> ...
InsertOrReplace(tbl, k, row) ==
    [x \in DOMAIN tbl \cup {k} |-> IF x = k THEN row ELSE tbl[x]]

\* INSERT OR IGNORE INTO <table> ... : a row whose key exists is left alone
InsertOrIgnore(tbl, k, row) ==
    IF k \in DOMAIN tbl THEN tbl
    ELSE [x \in DOMAIN tbl \cup {k} |-> IF x = k THEN row ELSE tbl[x]]

\* the value of an aggregate: NULL over no rows
SqlNull == [null |-> TRUE]

\* `x or default` on the value of an aggregate over strings
OrDefault(x, default) ==
    IF x.null THEN default ELSE IF x.value = <<>> THEN default ELSE x.value

\* SELECT MAX(publication_date) FROM papers
MaxPublicationDate(db) ==
    IF DOMAIN db.papers = {} THEN SqlNull
    ELSE LET ds == {db.papers[k].publication_date : k \in DOMAIN db.papers}
         IN [null |-> FALSE,
             value |-> CHOOSE d \in ds : \A e \in ds : DateLeq(e, d)]

(***************************************************************************)
(* Institution Resolver (update.py)                                        *)
(***************************************************************************)
\* the value resolve_institution returns for None
Absent == [found |-> FALSE]

\* the cache filled with resolved tuples only: `cache[inst_id] = None`
\* left out
CachePutResolved(cache, inst_id, v) ==
    IF v.found
    THEN [x \in DOMAIN cache \cup {inst_id} |-> IF x = inst_id THEN v ELSE cache[x]]
    ELSE cache

\* cache[inst_id] = v
CachePut(cache, inst_id, v) ==
    [x \in DOMAIN cache \cup {inst_id} |-> IF x = inst_id THEN v ELSE cache[x]]

\* GET {OPENALEX_INSTITUTIONS_URL}/{short_id}: an identifier the remote
\* does not know is a 404, which raise_for_status turns into an exception
InstitutionRequest(api, short_id) ==
    IF short_id \in DOMAIN api THEN api[short_id] ELSE [status |-> "error"]

\* resolve_institution without its last line: the tuple is cached, and the
\* function falls off its end
resolve_institution_no_return(inst_id, conn, cache, api) ==
    IF inst_id \in DOMAIN cache
    THEN [value |-> cache[inst_id], cache |-> cache, requests |-> 0]
    ELSE IF inst_id \in DOMAIN conn.institutions
    THEN LET row == conn.institutions[inst_id]
             t == [found |-> TRUE, lat |-> row.lat, lng |-> row.lng,
                   name |-> row.name, country |-> row.country_code]
         IN [value |-> t, cache |-> CachePut(cache, inst_id, t),
             requests |-> 0]
    ELSE LET short_id == IF StartsWithHttp(inst_id)
                         THEN Replace(inst_id, OPENALEX_PREFIX) ELSE inst_id
             data == InstitutionRequest(api, short_id)
         IN IF data.status = "error"
            THEN [value |-> Absent,
                  cache |-> CachePut(cache, inst_id, Absent),
                  requests |-> 1]
            ELSE IF data.geo.latitude = None \/ data.geo.longitude = None
            THEN [value |-> Absent,
                  cache |-> CachePut(cache, inst_id, Absent),
                  requests |-> 1]
            ELSE LET c1 == OrEmpty(data.country_code)
                     c2 == IF c1 # "" THEN c1 ELSE data.geo.country_code
                     t == [found |-> TRUE, lat |-> data.geo.latitude,
                           lng |-> data.geo.longitude,
                           name |-> OrEmpty(data.display_name),
                           country |-> OrNone(OrEmpty(c2))]
                 IN [value |-> Absent,
                     cache |-> CachePut(cache, inst_id, t),
                     requests |-> 1]

\* resolve_institution(inst_id, conn, cache): the value returned, the cache
\* as the call leaves it, and the number of remote requests it issued
resolve_institution(inst_id, conn, cache, api) ==
    IF inst_id \in DOMAIN cache
    THEN [value |-> cache[inst_id], cache |-> cache, requests |-> 0]
    ELSE IF inst_id \in DOMAIN conn.institutions
    THEN LET row == conn.institutions[inst_id]
             t == [found |-> TRUE, lat |-> row.lat, lng |-> row.lng,
                   name |-> row.name, country |-> row.country_code]
         IN [value |-> t, cache |-> CachePut(cache, inst_id, t),
             requests |-> 0]
    ELSE LET short_id == IF StartsWithHttp(inst_id)
                         THEN Replace(inst_id, OPENALEX_PREFIX) ELSE inst_id
             data == InstitutionRequest(api, short_id)
         IN IF data.status = "error"
            THEN [value |-> Absent,
                  cache |-> CachePut(cache, inst_id, Absent),
                  requests |-> 1]
            ELSE IF data.geo.latitude = None \/ data.geo.longitude = None
            THEN [value |-> Absent,
                  cache |-> CachePut(cache, inst_id, Absent),
                  requests |-> 1]
            ELSE LET c1 == OrEmpty(data.country_code)
                     c2 == IF c1 # "" THEN c1 ELSE data.geo.country_code
                     t == [found |-> TRUE, lat |-> data.geo.latitude,
                           lng |-> data.geo.longitude,
                           name |-> OrEmpty(data.display_name),
                           country |-> OrNone(OrEmpty(c2))]
                 IN [value |-> t,
                     cache |-> CachePut(cache, inst_id, t),
                     requests |-> 1]

(***************************************************************************)
(* The body of the loops of run().  A loop state st holds the locals the   *)
(* loop body reads and writes: conn (the connection's view of the          *)
(* database, uncommitted writes included), inst_cache, seen_inst,          *)
(* total_fetched, total_skipped_geo, and lookups (the remote               *)
(* single-entity requests issued so far, which the code does not count)    *)
(* with requested (the identifiers they were issued for, in order).        *)
(***************************************************************************)
\* `if not inst`: None or an empty object
IsEmptyInst(inst) == inst.empty

\* the same statements with the key put into seen_inst before the test
\* of seen_inst: the INSERT into paper_institutions is never reached
UpsertInstitutionSeenFirst(st, work_id, inst_id, row) ==
    LET key == <<work_id, inst_id>>
        c1 == [st.conn EXCEPT !.institutions = InsertOrIgnore(@, inst_id, row)]
    IN [st EXCEPT !.conn = c1, !.seen_inst = @ \cup {key}]

\* conn.execute("INSERT OR IGNORE INTO institutions ...") followed by the
\* seen_inst test and conn.execute("INSERT OR IGNORE INTO
\* paper_institutions ...")
UpsertInstitutionAndEdge(st, work_id, inst_id, row) ==
    LET key == <<work_id, inst_id>>
        c1 == [st.conn EXCEPT !.institutions = InsertOrIgnore(@, inst_id, row)]
    IN IF key \notin st.seen_inst
       THEN [st EXCEPT !.conn = [c1 EXCEPT !.paper_institutions = @ \cup {key}],
                       !.seen_inst = @ \cup {key}]
       ELSE [st EXCEPT !.conn = c1]

\* backfill.py, the body of `for inst in a.get("institutions") or []`, with
\* `lat is None or lng is None` written as `and`
BackfillInstitutionAnd(st, work_id, inst, api) ==
    IF IsEmptyInst(inst) THEN st
    ELSE LET lat == inst.geo.latitude
             lng == inst.geo.longitude
         IN IF lat = None /\ lng = None
            THEN [st EXCEPT !.total_skipped_geo = @ + 1]
            ELSE LET inst_id == Replace(inst.id, OPENALEX_PREFIX)
                     name == OrEmpty(inst.display_name)
                     country == OrNone(OrEmpty(inst.country_code))
                 IN IF inst_id # <<>> /\ name # ""
                    THEN UpsertInstitutionAndEdge(st, work_id, inst_id,
                             [name |-> name, lat |-> lat, lng |-> lng,
                              country_code |-> country])
                    ELSE st

\* backfill.py, the body of `for inst in a.get("institutions") or []`
BackfillInstitution(st, work_id, inst, api) ==
    IF IsEmptyInst(inst) THEN st
    ELSE LET lat == inst.geo.latitude
             lng == inst.geo.longitude
         IN IF lat = None \/ lng = None
            THEN [st EXCEPT !.total_skipped_geo = @ + 1]
            ELSE LET inst_id == Replace(inst.id, OPENALEX_PREFIX)
                     name == OrEmpty(inst.display_name)
                     country == OrNone(OrEmpty(inst.country_code))
                 IN IF inst_id # <<>> /\ name # ""
                    THEN UpsertInstitutionAndEdge(st, work_id, inst_id,
                             [name |-> name, lat |-> lat, lng |-> lng,
                              country_code |-> country])
                    ELSE st

\* update.py, the body of `for inst in ...`, without the skip counter
UpdateInstitutionNoCount(st, work_id, inst, api) ==
    IF IsEmptyInst(inst) THEN st
    ELSE LET inst_id == Strip(inst.id)
         IN IF inst_id = <<>> THEN st
            ELSE LET r == resolve_institution(inst_id, st.conn, st.inst_cache, api)
                     s1 == [st EXCEPT !.inst_cache = r.cache,
                                      !.lookups = @ + r.requests,
                                      !.requested = IF r.requests > 0
                                                    THEN Append(@, inst_id)
                                                    ELSE @]
                 IN IF ~r.value.found THEN s1
                    ELSE UpsertInstitutionAndEdge(s1, work_id, inst_id,
                             [name |-> r.value.name, lat |-> r.value.lat,
                              lng |-> r.value.lng,
                              country_code |-> r.value.country])

\* update.py, the body of `for inst in a.get("institutions") or []`
UpdateInstitution(st, work_id, inst, api) ==
    IF IsEmptyInst(inst) THEN st
    ELSE LET inst_id == Strip(inst.id)
         IN IF inst_id = <<>> THEN st
            ELSE LET r == resolve_institution(inst_id, st.conn, st.inst_cache, api)
                     s1 == [st EXCEPT !.inst_cache = r.cache,
                                      !.lookups = @ + r.requests,
                                      !.requested = IF r.requests > 0
                                                    THEN Append(@, inst_id)
                                                    ELSE @]
                 IN IF ~r.value.found
                    THEN [s1 EXCEPT !.total_skipped_geo = @ + 1]
                    ELSE UpsertInstitutionAndEdge(s1, work_id, inst_id,
                             [name |-> r.value.name, lat |-> r.value.lat,
                              lng |-> r.value.lng,
                              country_code |-> r.value.country])

\* the institution references of a record in the order the two nested
\* loops (`for a in authorships`, `for inst in a.get("institutions")`)
\* visit them
RECURSIVE InstitutionRefs(_)
InstitutionRefs(authorships) ==
    IF authorships = <<>> THEN <<>>
    ELSE Head(authorships).institutions \o InstitutionRefs(Tail(authorships))

RECURSIVE ForEachInstitution(_, _, _, _, _)
ForEachInstitution(mode, st, work_id, refs, api) ==
    IF refs = <<>> THEN st
    ELSE ForEachInstitution(mode,
             IF mode = "backfill"
             THEN BackfillInstitution(st, work_id, Head(refs), api)
             ELSE UpdateInstitution(st, work_id, Head(refs), api),
             work_id, Tail(refs), api)

\* the body of `for work in results` without the INSERT into papers
ProcessWorkNoPaper(mode, st, work, api) ==
    LET work_id == Replace(work.id, OPENALEX_PREFIX)
    IN IF work_id = <<>> THEN st
       ELSE LET s1 == [st EXCEPT !.seen_inst = {}]
                s2 == ForEachInstitution(mode, s1, work_id,
                                         InstitutionRefs(work.authorships), api)
            IN [s2 EXCEPT !.total_fetched = @ + 1]

\* the body of `for work in results`, the same lines in both scripts but
\* for the institution loop
ProcessWork(mode, st, work, api) ==
    LET work_id == Replace(work.id, OPENALEX_PREFIX)
    IN IF work_id = <<>> THEN st
       ELSE LET title == OrEmpty(work.display_name)
                pub_date == Trunc10(work.publication_date)
                doi == Replace(work.doi, DOI_PREFIX)
                openalex_url == work.id
                s1 == [st EXCEPT
                         !.conn.papers = InsertOrIgnore(@, work_id,
                             [title |-> title, publication_date |-> pub_date,
                              doi |-> doi, openalex_url |-> openalex_url]),
                         !.seen_inst = {}]
                s2 == ForEachInstitution(mode, s1, work_id,
                                         InstitutionRefs(work.authorships), api)
            IN [s2 EXCEPT !.total_fetched = @ + 1]

\* `for work in results`, over results[lo..hi]: the records in their order.
\* The range is halved, and the state after the first half is looked at
\* before the second half starts, which keeps the evaluation shallow.
RECURSIVE ForEachWorkIn(_, _, _, _, _, _)
ForEachWorkIn(mode, st, results, lo, hi, api) ==
    IF lo > hi THEN st
    ELSE IF lo = hi THEN ProcessWork(mode, st, results[lo], api)
    ELSE LET mid == (lo + hi) \div 2
             half == ForEachWorkIn(mode, st, results, lo, mid, api)
         IN IF half.total_fetched >= 0
            THEN ForEachWorkIn(mode, half, results, mid + 1, hi, api)
            ELSE half

ForEachWork(mode, st, results, api) ==
    ForEachWorkIn(mode, st, results, 1, Len(results), api)

(***************************************************************************)
(* Remote Collection API (the environment).  A collection is a sequence of *)
(* pages; a page is a sequence of groups [work, copies], the record `work` *)
(* listed `copies` times in a row.  The cursor of page i+1 is i+1; no      *)
(* cursor is 0.  The remote applies the date filter of the request to the  *)
(* records of each page; a record without a date passes it.                *)
(***************************************************************************)
Copies(work, n) == [i \in 1..n |-> work]

RECURSIVE Records(_)
Records(page) ==
    IF page = <<>> THEN <<>>
    ELSE Copies(Head(page).work, Head(page).copies) \o Records(Tail(page))

InDateRange(work, from_date) ==
    LET d == Trunc10(work.publication_date)
    IN d = <<>> \/ (DateLeq(from_date, d) /\ DateLeq(d, TO_DATE))

\* the groups of the page that a request with this cursor and lower bound
\* is answered with
Matching(pages, from_date, cursor) ==
    SelectSeq(pages[IF cursor = 0 THEN 1 ELSE cursor],
              LAMBDA g : InDateRange(g.work, from_date))

\* fetch_page(from_date, cursor) when the request succeeds: data["results"]
\* and data["meta"]["next_cursor"]
fetch_page(pages, from_date, cursor) ==
    LET i == IF cursor = 0 THEN 1 ELSE cursor
    IN [results |-> Records(Matching(pages, from_date, cursor)),
        next_cursor |-> IF i < Len(pages) THEN i + 1 ELSE 0]

(***************************************************************************)
(* Aggregation/Export (export.py)                                          *)
(***************************************************************************)
\* the first query with LEFT JOIN for JOIN: every institution has a row,
\* with COUNT(pi.paper_id) zero when nothing is associated with it
InstitutionSummaryLeftJoin(db) ==
    {[id |-> i, name |-> db.institutions[i].name,
      lat |-> db.institutions[i].lat, lng |-> db.institutions[i].lng,
      country_code |-> OrEmpty(db.institutions[i].country_code),
      paper_count |-> Cardinality({pi \in db.paper_institutions : pi[2] = i})] :
     i \in DOMAIN db.institutions}

\* SELECT ... FROM institutions i JOIN paper_institutions pi ON
\* pi.institution_id = i.id GROUP BY i.id, as the dictionaries of the list
InstitutionSummary(db) ==
    LET joined == {pi \in db.paper_institutions : pi[2] \in DOMAIN db.institutions}
    IN {[id |-> i, name |-> db.institutions[i].name,
         lat |-> db.institutions[i].lat, lng |-> db.institutions[i].lng,
         country_code |-> OrEmpty(db.institutions[i].country_code),
         paper_count |-> Cardinality({pi \in joined : pi[2] = i})] :
        i \in {pi[2] : pi \in joined}}

\* the second query with COUNT(pi.paper_id) for COUNT(DISTINCT
\* pi.paper_id): the joined rows of the country are counted
PapersByCountryRows(db) ==
    LET joined == {pi \in db.paper_institutions :
                     /\ pi[2] \in DOMAIN db.institutions
                     /\ db.institutions[pi[2]].country_code \notin {None, ""}}
    IN {[country_code |-> c,
         paper_count |-> Cardinality(
                           {q \in joined : db.institutions[q[2]].country_code = c})] :
        c \in {db.institutions[pi[2]].country_code : pi \in joined}}

\* SELECT i.country_code, COUNT(DISTINCT pi.paper_id) ... WHERE
\* i.country_code IS NOT NULL AND i.country_code != '' GROUP BY i.country_code
PapersByCountry(db) ==
    LET joined == {pi \in db.paper_institutions :
                     /\ pi[2] \in DOMAIN db.institutions
                     /\ db.institutions[pi[2]].country_code \notin {None, ""}}
    IN {[country_code |-> c,
         paper_count |-> Cardinality({pi[1] : pi \in
                           {q \in joined : db.institutions[q[2]].country_code = c}})] :
        c \in {db.institutions[pi[2]].country_code : pi \in joined}}

\* ORDER BY paper_count DESC: every order of the rows that the clause
\* allows (the order of rows with equal counts is the engine's)
RECURSIVE OrderByPaperCountDesc(_)
OrderByPaperCountDesc(rows) ==
    IF rows = {} THEN {<<>>}
    ELSE UNION {{<<r>> \o t : t \in OrderByPaperCountDesc(rows \ {r})} :
                r \in {x \in rows : \A y \in rows : y.paper_count <= x.paper_count}}

\* SELECT MIN(publication_date) FROM papers
MinPublicationDate(db) ==
    IF DOMAIN db.papers = {} THEN SqlNull
    ELSE LET ds == {db.papers[k].publication_date : k \in DOMAIN db.papers}
         IN [null |-> FALSE,
             value |-> CHOOSE d \in ds : \A e \in ds : DateLeq(d, e)]

\* the dictionary written to meta.json but for papers_by_country
MetaTotals(db) ==
    LET last_date == OrDefault(MaxPublicationDate(db), <<>>)
        date_from == OrDefault(MinPublicationDate(db), <<>>)
        date_to == last_date
    IN [last_updated |-> Trunc10(last_date),
        total_papers |-> Cardinality(DOMAIN db.papers),
        total_institutions |-> Cardinality(DOMAIN db.institutions),
        date_range |-> [from |-> Trunc10(date_from), to |-> Trunc10(date_to)]]

\* what the process has written before it has exported anything
NoArtifacts == [written |-> FALSE]

(***************************************************************************)
(* The inputs: the records, pages and collections the remote may hold      *)
(***************************************************************************)
Geo(lat, lng) == [latitude |-> lat, longitude |-> lng]

Inst(id, name, country, geo) ==
    [empty |-> FALSE, id |-> id, display_name |-> name,
     country_code |-> country, geo |-> geo]

\* None or {} in a list of institutions
EmptyInst == [empty |-> TRUE]

MIT == Inst(<<OPENALEX_PREFIX, "I1">>, "MIT", "US", Geo("42.4", "-71.1"))
MITRenamed == Inst(<<OPENALEX_PREFIX, "I1">>, "M.I.T.", None, Geo("42.0", "-71.0"))
MITNoName == Inst(<<OPENALEX_PREFIX, "I1">>, None, "US", Geo("42.4", "-71.1"))
ETHHalfGeo == Inst(<<OPENALEX_PREFIX, "I2">>, "ETH", "CH", Geo("47.4", None))
ETHBare == Inst(<<"I2">>, "ETH", "CH", Geo("47.4", "8.5"))
Blank == Inst(<<WS>>, "ETH", "", Geo(None, None))

Work(id, title, date, doi, authorships) ==
    [id |-> id, display_name |-> title, publication_date |-> date,
     doi |-> doi, authorships |-> authorships]

Authors(insts) == [institutions |-> insts]

\* two authors of one paper at the same institution, a third at one whose
\* payload has no longitude
W1 == Work(<<OPENALEX_PREFIX, "W1">>, "Robots", <<2023, "T00:00:00">>,
           <<DOI_PREFIX, "10.1/r">>,
           <<Authors(<<MIT>>), Authors(<<MIT, ETHHalfGeo>>)>>)
\* the same paper as the remote reports it later
W1Later == Work(<<OPENALEX_PREFIX, "W1">>, "Robots, revised", <<2024>>, <<>>,
                <<Authors(<<MITRenamed, EmptyInst>>)>>)
\* an older paper
W2 == Work(<<OPENALEX_PREFIX, "W2">>, None, <<2020>>, <<>>,
           <<Authors(<<MITNoName>>), Authors(<<ETHBare>>)>>)
\* a paper without a date
W3 == Work(<<OPENALEX_PREFIX, "W3">>, "Undated", <<>>, <<>>,
           <<Authors(<<Blank, MIT>>)>>)
\* a record without an identifier
Malformed == Work(<<>>, "No id", <<2022>>, <<>>, <<Authors(<<MIT>>)>>)

Works == {W1, W1Later, W2, W3, Malformed}

\* the page of a full page size, all of it one paper without institutions
BulkWork == Work(<<OPENALEX_PREFIX, "W1">>, "Robots", <<2023>>, <<>>, <<>>)
BulkPage == <<[work |-> BulkWork, copies |-> PER_PAGE]>>

\* the pages other than the bulk page: no record, or one
ContentPages == {<<>>} \cup {<<[work |-> w, copies |-> 1]>> : w \in Works}

RECURSIVE PageSeqs(_, _)
PageSeqs(pages, n) ==
    IF n = 0 THEN {<<>>}
    ELSE LET shorter == PageSeqs(pages, n - 1)
         IN shorter \cup {<<p>> \o t : p \in pages, t \in shorter}

RECURSIVE Repeat(_, _)
Repeat(page, n) == IF n = 0 THEN <<>> ELSE <<page>> \o Repeat(page, n - 1)

\* the collections without a bulk page
ContentCollections == PageSeqs(ContentPages, MaxTail + 1) \ {<<>>}

\* the collections with a run of bulk pages, after at most one page and
\* before at most MaxTail pages
BulkCollections ==
    {h \o Repeat(BulkPage, BulkPages) \o t :
        h \in {<<>>, <<<<[work |-> W2, copies |-> 1]>>>>,
               <<<<[work |-> Malformed, copies |-> 1]>>>>},
        t \in PageSeqs({<<[work |-> W2, copies |-> 1]>>}, MaxTail)}

Response(name, country, geo) ==
    [status |-> "ok", display_name |-> name, country_code |-> country, geo |-> geo]

\* the answers of the single-entity API
InstitutionApis ==
    {[i \in {<<"I1">>, <<"I2">>} |->
        IF i = <<"I1">> THEN r1 ELSE r2] :
     r1 \in {[status |-> "error"],
             Response("MIT (lookup)", None,
                      [latitude |-> "42.4", longitude |-> "-71.1",
                       country_code |-> "US"])},
     r2 \in {Response("ETH", "CH",
                      [latitude |-> None, longitude |-> "8.5",
                       country_code |-> None])}}

(***************************************************************************)
(* State                                                                   *)
(***************************************************************************)
VARIABLES
    remote,             \* the remote: [pages, institutions]
    store,              \* data/publications.db as committed
    artifacts,          \* data/institutions.json and data/meta.json
    pc,                 \* where the process is: "idle" before any run,
                        \* "loop", "final_commit", "export" inside run(),
                        \* "done", "failed", "export_failed", "crashed" after
    mode,               \* the script that runs: "backfill" or "update"
    conn,               \* the database as the connection sees it
    from_date,          \* lower bound of the date filter
    cursor,             \* cursor of the next request; 0 is None
    inst_cache,         \* update.py: inst_cache
    total_fetched,
    total_skipped_geo,
    \* history, for the statements of the properties
    runs,               \* runs started
    run_start,          \* the store when this run started
    prev,               \* mode, outcome and run_start of the run before
    checkpoint,         \* the store as the last commit of this run left
                        \* it; run_start before the first
    since_commit,       \* records counted since the last commit
    processed,          \* the groups of records the loop has been given,
                        \* in order
    lookups,            \* single-entity requests issued by this run
    requested,          \* the identifiers resolve_institution was called
                        \* with when it issued them, in order
    fetch_error,        \* a page request of this run has failed
    exports             \* times this run has started export.py

vars == <<remote, store, artifacts, pc, mode, conn, from_date, cursor,
          inst_cache, total_fetched, total_skipped_geo, runs, run_start,
          prev, checkpoint, since_commit, processed, lookups, requested,
          fetch_error, exports>>

locals == <<mode, from_date, cursor, inst_cache, total_fetched,
            total_skipped_geo>>

history == <<runs, run_start, prev, checkpoint, since_commit, processed,
             lookups, requested>>

NoRun == [mode |-> "none", outcome |-> "none", run_start |-> EmptyDB]

InitRest ==
    /\ store = EmptyDB
    /\ artifacts = NoArtifacts
    /\ pc = "idle"
    /\ mode = "none"
    /\ conn = EmptyDB
    /\ from_date = FROM_DATE
    /\ cursor = 0
    /\ inst_cache = EmptyTable
    /\ total_fetched = 0
    /\ total_skipped_geo = 0
    /\ runs = 0
    /\ run_start = EmptyDB
    /\ prev = NoRun
    /\ checkpoint = EmptyDB
    /\ since_commit = 0
    /\ processed = <<>>
    /\ lookups = 0
    /\ requested = <<>>
    /\ fetch_error = FALSE
    /\ exports = 0

Init ==
    /\ remote \in {[pages |-> c, institutions |-> a] :
                     c \in ContentCollections \cup BulkCollections,
                     a \in InstitutionApis}
    /\ InitRest

(***************************************************************************)
(* run()                                                                   *)
(***************************************************************************)
Ended == pc \in {"idle", "done", "failed", "export_failed", "crashed"}

\* how a run that is over ended: "completed" when it left the loop and
\* committed, "interrupted" when a failed page request or the death of
\* the process ended it
Outcome ==
    IF pc = "idle" THEN "none"
    ELSE IF pc \in {"done", "export_failed"} THEN "completed"
    ELSE "interrupted"

\* the first lines of run(), up to the loop: connect, create_schema, the
\* locals
StartRun(m, lower) ==
    /\ Ended
    /\ runs < MaxRuns
    /\ pc' = "loop"
    /\ mode' = m
    /\ conn' = store
    /\ from_date' = lower
    /\ cursor' = 0
    /\ inst_cache' = EmptyTable
    /\ total_fetched' = 0
    /\ total_skipped_geo' = 0
    /\ runs' = runs + 1
    /\ run_start' = store
    /\ prev' = [mode |-> mode, outcome |-> Outcome, run_start |-> run_start]
    /\ checkpoint' = store
    /\ since_commit' = 0
    /\ processed' = <<>>
    /\ lookups' = 0
    /\ requested' = <<>>
    /\ fetch_error' = FALSE
    /\ exports' = 0
    /\ UNCHANGED <<remote, store, artifacts>>

\* backfill.py run(), lines before the loop
StartBackfill == StartRun("backfill", FROM_DATE)

\* update.py run(), lines before the loop: the lower bound is the latest
\* date of the store
StartUpdate ==
    StartRun("update", Trunc10(OrDefault(MaxPublicationDate(store), FROM_DATE)))

\* `if total_fetched % 1000 == 0 and total_fetched > 0`, tested after the
\* records of a page
CheckpointDue(before, after) ==
    after % CHECKPOINT_INTERVAL = 0 /\ after > 0

\* the iteration without `cursor = next_cursor`: the next request asks
\* for the same page
LoopIterationSamePage ==
    /\ pc = "loop"
    /\ LET data == fetch_page(remote.pages, from_date, cursor)
           s0 == [conn |-> conn, inst_cache |-> inst_cache, seen_inst |-> {},
                  total_fetched |-> total_fetched,
                  total_skipped_geo |-> total_skipped_geo,
                  lookups |-> lookups, requested |-> requested]
       IN \E s1 \in {ForEachWork(mode, s0, data.results, remote.institutions)} :
          LET commit == CheckpointDue(total_fetched, s1.total_fetched)
          IN /\ conn' = s1.conn
             /\ inst_cache' = s1.inst_cache
             /\ total_fetched' = s1.total_fetched
             /\ total_skipped_geo' = s1.total_skipped_geo
             /\ lookups' = s1.lookups
             /\ requested' = s1.requested
             /\ processed' = processed \o Matching(remote.pages, from_date, cursor)
             /\ store' = IF commit THEN s1.conn ELSE store
             /\ checkpoint' = IF commit THEN s1.conn ELSE checkpoint
             /\ since_commit' = IF commit THEN 0
                                ELSE since_commit + (s1.total_fetched - total_fetched)
             /\ IF data.next_cursor = 0
                THEN pc' = "final_commit" /\ cursor' = cursor
                ELSE pc' = "loop" /\ cursor' = cursor
    /\ UNCHANGED <<remote, artifacts, mode, from_date, runs, run_start, prev,
                   fetch_error, exports>>

\* one iteration of `while True` with a request that succeeds: the records
\* of the page (s1 is the one state of the locals after them), the
\* checkpoint, the test of next_cursor
LoopIteration ==
    /\ pc = "loop"
    /\ LET data == fetch_page(remote.pages, from_date, cursor)
           s0 == [conn |-> conn, inst_cache |-> inst_cache, seen_inst |-> {},
                  total_fetched |-> total_fetched,
                  total_skipped_geo |-> total_skipped_geo,
                  lookups |-> lookups, requested |-> requested]
       IN \E s1 \in {ForEachWork(mode, s0, data.results, remote.institutions)} :
          LET commit == CheckpointDue(total_fetched, s1.total_fetched)
          IN /\ conn' = s1.conn
             /\ inst_cache' = s1.inst_cache
             /\ total_fetched' = s1.total_fetched
             /\ total_skipped_geo' = s1.total_skipped_geo
             /\ lookups' = s1.lookups
             /\ requested' = s1.requested
             /\ processed' = processed \o Matching(remote.pages, from_date, cursor)
             /\ store' = IF commit THEN s1.conn ELSE store
             /\ checkpoint' = IF commit THEN s1.conn ELSE checkpoint
             /\ since_commit' = IF commit THEN 0
                                ELSE since_commit + (s1.total_fetched - total_fetched)
             /\ IF data.next_cursor = 0
                THEN pc' = "final_commit" /\ cursor' = cursor
                ELSE pc' = "loop" /\ cursor' = data.next_cursor
    /\ UNCHANGED <<remote, artifacts, mode, from_date, runs, run_start, prev,
                   fetch_error, exports>>

\* the process ends without a commit: the connection's uncommitted writes
\* are rolled back, and the locals of run() are gone
ProcessDies ==
    /\ conn' = store
    /\ from_date' = FROM_DATE
    /\ cursor' = 0
    /\ inst_cache' = EmptyTable
    /\ total_fetched' = 0
    /\ total_skipped_geo' = 0
    /\ since_commit' = 0
    /\ processed' = <<>>
    /\ lookups' = 0
    /\ requested' = <<>>
    /\ UNCHANGED <<remote, store, artifacts, mode, runs, run_start, prev>>

\* a page request that fails, with the error swallowed and the loop ended
FetchFailsQuietly ==
    /\ pc = "loop"
    /\ pc' = "final_commit"
    /\ fetch_error' = TRUE
    /\ UNCHANGED <<remote, store, artifacts, conn, locals, history, exports>>

\* fetch_page raises (requests.get or raise_for_status): nothing catches
\* it, the process ends, and the connection goes without a commit
FetchFails ==
    /\ pc = "loop"
    /\ pc' = "failed"
    /\ fetch_error' = TRUE
    /\ ProcessDies
    /\ UNCHANGED <<checkpoint, exports>>

\* the loop left with the commit that follows it forgotten
NoFinalCommit ==
    /\ pc = "final_commit"
    /\ pc' = "export"
    /\ UNCHANGED <<remote, store, artifacts, conn, locals, history, fetch_error,
                   exports>>

\* conn.commit(); conn.close() after the loop
FinalCommit ==
    /\ pc = "final_commit"
    /\ pc' = "export"
    /\ store' = conn
    /\ since_commit' = 0
    /\ UNCHANGED <<remote, artifacts, conn, locals, runs, run_start, prev,
                   checkpoint, processed, lookups, requested, fetch_error,
                   exports>>

\* subprocess.run([... "export.py"], check=True) with export.py exiting 0:
\* run_export() has written both files
ExportSucceeds ==
    /\ pc = "export"
    /\ pc' = "done"
    /\ exports' = exports + 1
    /\ \E inst \in OrderByPaperCountDesc(InstitutionSummary(store)),
          byc \in OrderByPaperCountDesc(PapersByCountry(store)) :
          artifacts' = [written |-> TRUE, institutions |-> inst,
                        meta |-> [totals |-> MetaTotals(store),
                                  papers_by_country |-> byc]]
    /\ UNCHANGED <<remote, store, conn, locals, history, fetch_error>>

\* subprocess.run(..., check=True) with export.py exiting non-zero:
\* CalledProcessError leaves run()
ExportFails ==
    /\ pc = "export"
    /\ pc' = "export_failed"
    /\ exports' = exports + 1
    /\ UNCHANGED <<remote, store, artifacts, conn, locals, history, fetch_error>>

\* the process is killed inside run(): what was not committed is gone
Crash ==
    /\ pc \in {"loop", "final_commit", "export"}
    /\ pc' = "crashed"
    /\ ProcessDies
    /\ checkpoint' = store
    /\ exports' = 0
    /\ UNCHANGED fetch_error

Next ==
    \/ StartBackfill
    \/ StartUpdate
    \/ LoopIteration
    \/ FetchFails
    \/ FinalCommit
    \/ ExportSucceeds
    \/ ExportFails
    \/ Crash

Spec == Init /\ [][Next]_vars

(***************************************************************************)
(* One run of a script on the empty store, by a process that keeps         *)
(* running: a request is answered or fails, the statements after the loop  *)
(* are executed, and export.py exits.  The process may still be killed.    *)
(***************************************************************************)
LiveNext ==
    \/ (runs = 0 /\ StartBackfill)
    \/ (runs = 0 /\ StartUpdate)
    \/ LoopIteration
    \/ FetchFails
    \/ FinalCommit
    \/ ExportSucceeds
    \/ ExportFails
    \/ Crash

LiveSpec ==
    /\ Init
    /\ [][LiveNext]_vars
    /\ WF_vars(FetchFails \/ LoopIteration)
    /\ WF_vars(FinalCommit)
    /\ WF_vars(ExportFails \/ ExportSucceeds)

(***************************************************************************)
(* export.py on a database of any content: the tables hold two papers and  *)
(* five institutions (two of one country, one of another, one with NULL    *)
(* and one with '' for its country code), and up to MaxAssociations        *)
(* association rows between the papers and these institutions or an        *)
(* identifier without a row (the foreign keys are not enforced).           *)
(***************************************************************************)
StorePapers ==
    [k \in {<<"W1">>, <<"W2">>} |->
        [title |-> "Robots",
         publication_date |-> IF k = <<"W1">> THEN <<2023>> ELSE <<2020>>,
         doi |-> <<>>, openalex_url |-> <<OPENALEX_PREFIX>> \o k]]

StoreInstitutions ==
    [k \in {<<"I1">>, <<"I2">>, <<"I3">>, <<"I4">>, <<"I5">>} |->
        [name |-> "Institute", lat |-> "42.4", lng |-> "-71.1",
         country_code |-> IF k \in {<<"I1">>, <<"I3">>} THEN "US"
                          ELSE IF k = <<"I2">> THEN "CH"
                          ELSE IF k = <<"I4">> THEN None ELSE ""]]

StoreAssociations ==
    {a \in SUBSET ((DOMAIN StorePapers)
                     \X (DOMAIN StoreInstitutions \cup {<<"I9">>})) :
        Cardinality(a) <= MaxAssociations}

Stores ==
    {EmptyDB} \cup
    {[papers |-> StorePapers, institutions |-> StoreInstitutions,
      paper_institutions |-> a] : a \in StoreAssociations}

\* export.py is about to run on the database (pc = "export"), started on
\* its own (`python export.py`) and not by run()
ExportInit ==
    /\ remote = [pages |-> <<<<>>>>, institutions |-> EmptyTable]
    /\ store \in Stores
    /\ artifacts = NoArtifacts
    /\ pc = "export"
    /\ mode = "none"
    /\ conn = store
    /\ from_date = FROM_DATE
    /\ cursor = 0
    /\ inst_cache = EmptyTable
    /\ total_fetched = 0
    /\ total_skipped_geo = 0
    /\ runs = 0
    /\ run_start = store
    /\ prev = NoRun
    /\ checkpoint = store
    /\ since_commit = 0
    /\ processed = <<>>
    /\ lookups = 0
    /\ requested = <<>>
    /\ fetch_error = FALSE
    /\ exports = 0

ExportNext ==
    \/ ExportSucceeds
    \/ ExportFails

ExportSpec == ExportInit /\ [][ExportNext]_vars

(***************************************************************************)
(* Properties                                                              *)
(***************************************************************************)
\* the run has left the loop and committed
Completed == pc \in {"export", "done", "export_failed"}

\* run() is inside or past its loop with its connection alive
Alive == pc \in {"loop", "final_commit", "export", "done", "export_failed"}

\* the identifier without its namespace prefix: the stripped identifier
Stripped(id) == Replace(id, OPENALEX_PREFIX)

\* the database a run of mode m leaves when it starts on db and nothing
\* interrupts it: the pages in their order, then the final commit
RECURSIVE LoopFrom(_, _, _, _)
LoopFrom(m, st, lower, cur) ==
    LET data == fetch_page(remote.pages, lower, cur)
        s1 == ForEachWork(m, st, data.results, remote.institutions)
    IN IF s1.total_fetched >= 0 /\ data.next_cursor # 0
       THEN LoopFrom(m, s1, lower, data.next_cursor)
       ELSE s1

UninterruptedRun(m, db) ==
    LoopFrom(m,
             [conn |-> db, inst_cache |-> EmptyTable, seen_inst |-> {},
              total_fetched |-> 0, total_skipped_geo |-> 0, lookups |-> 0,
              requested |-> <<>>],
             IF m = "backfill" THEN FROM_DATE
             ELSE Trunc10(OrDefault(MaxPublicationDate(db), FROM_DATE)),
             0).conn

\* C1: a run that completes after a completed run of the same mode, on the
\* same remote, leaves the three tables as that first run left them
C1_Idempotence ==
    (Completed /\ prev.mode = mode /\ prev.outcome = "completed")
        => store = run_start

\* a second update run has completed over a store with papers,
\* institutions and associations, and has gone through records again
C1_Witness ==
    /\ pc = "done"
    /\ mode = "update"
    /\ prev.mode = mode
    /\ prev.outcome = "completed"
    /\ total_fetched > 0
    /\ store.paper_institutions # {}

\* a second backfill run has completed over a store with associations
C1_WitnessBackfill ==
    /\ pc = "done"
    /\ mode = "backfill"
    /\ prev.mode = mode
    /\ prev.outcome = "completed"
    /\ total_fetched > 0
    /\ store.paper_institutions # {}

\* C2: a run that completes after an interrupted run of the same mode
\* (crash or failed page request) leaves the store that an uninterrupted
\* run, started where the interrupted one started, would have left
C2_CrashReplayConvergence ==
    (Completed /\ prev.mode = mode /\ prev.outcome = "interrupted")
        => store = UninterruptedRun(mode, prev.run_start)

\* C2 for backfill alone
C2_CrashReplayBackfill ==
    (Completed /\ mode = "backfill" /\ prev.mode = mode
        /\ prev.outcome = "interrupted")
        => store = UninterruptedRun(mode, prev.run_start)

\* C3: the records counted since the last commit never exceed the
\* checkpoint interval
C3_CheckpointBound == since_commit <= CHECKPOINT_INTERVAL

\* the rows of db are rows of db2, column for column
RowsKept(db, db2) ==
    /\ \A k \in DOMAIN db.papers :
          k \in DOMAIN db2.papers /\ db2.papers[k] = db.papers[k]
    /\ \A k \in DOMAIN db.institutions :
          k \in DOMAIN db2.institutions /\ db2.institutions[k] = db.institutions[k]
    /\ db.paper_institutions \subseteq db2.paper_institutions

\* the institution keys of db are stripped identifiers, one per institution
StrippedKeys(db) ==
    /\ \A k \in DOMAIN db.institutions : Stripped(k) = k
    /\ \A k1, k2 \in DOMAIN db.institutions :
          Stripped(k1) = Stripped(k2) => k1 = k2
    /\ \A a, b \in db.paper_institutions :
          (a[1] = b[1] /\ Stripped(a[2]) = Stripped(b[2])) => a = b

\* C4: every institution row is keyed by the stripped identifier, so a
\* remote institution has one row and a (paper, institution) pair one
\* association row, whichever runs saw them
C4_OneRowPerStrippedInstitution == StrippedKeys(store) /\ StrippedKeys(conn)

\* C5: no step changes or removes a committed row; and the records of a
\* page change or remove no row the connection already sees
C5_UpsertSafety ==
    [][/\ RowsKept(store, store')
       /\ (pc = "loop" /\ pc' \in {"loop", "final_commit"}) => RowsKept(conn, conn')]_vars

\* the remote has reported paper W1 a second time with another title and
\* date, and institution I1 with another name and place, to a run that
\* had their rows already
C5_Witness ==
    /\ Completed
    /\ mode = "backfill"
    /\ \E i, j \in 1..Len(processed) :
          i < j /\ processed[i].work = W1 /\ processed[j].work = W1Later
    /\ store.papers[<<"W1">>].title = "Robots"
    /\ store.institutions[<<"I1">>].name = "MIT"

\* the places of the references in the records the loop has been given:
\* <<i, j>> is the j-th reference of the record of group processed[i];
\* records without an identifier and empty references are left out, as
\* the loops leave them
RefPlaces ==
    UNION {{<<i, j>> : j \in {n \in 1..Len(InstitutionRefs(processed[i].work.authorships)) :
                                ~InstitutionRefs(processed[i].work.authorships)[n].empty}} :
           i \in {n \in 1..Len(processed) :
                    processed[n].copies > 0 /\ Stripped(processed[n].work.id) # <<>>}}

RefAt(place) == InstitutionRefs(processed[place[1]].work.authorships)[place[2]]

\* the references of the records the loop has been given: [work, inst]
\* with work the record that holds the reference
ProcessedRefs == {[work |-> processed[pl[1]].work, inst |-> RefAt(pl)] : pl \in RefPlaces}

\* the records with an identifier that the loop has been given
ProcessedWorks ==
    {processed[i].work : i \in {n \in 1..Len(processed) :
        processed[n].copies > 0 /\ Stripped(processed[n].work.id) # <<>>}}

RECURSIVE SumOver(_, _)
SumOver(places, weight) ==
    IF places = {} THEN 0
    ELSE LET pl == CHOOSE x \in places : TRUE
         IN weight[pl] + SumOver(places \ {pl}, weight)

\* the number of those references that satisfy P, each counted as often
\* as the loop has met it
CountRefs(P(_)) ==
    LET places == {pl \in RefPlaces : P(RefAt(pl))}
    IN SumOver(places, [pl \in places |-> processed[pl[1]].copies])

\* the single-entity API has no coordinates for the identifier: the
\* request fails, or its answer lacks latitude or longitude
NoRemoteGeo(id) ==
    LET data == InstitutionRequest(remote.institutions,
                    IF StartsWithHttp(id) THEN Stripped(id) ELSE id)
    IN data.status = "error"
       \/ data.geo.latitude = None \/ data.geo.longitude = None

\* latitude or longitude cannot be obtained for the reference: backfill
\* has the payload only; update has the store, then the remote
GeoUnobtainable(inst) ==
    IF mode = "backfill"
    THEN inst.geo.latitude = None \/ inst.geo.longitude = None
    ELSE /\ Strip(inst.id) # <<>>
         /\ Strip(inst.id) \notin DOMAIN run_start.institutions
         /\ NoRemoteGeo(Strip(inst.id))

\* the key under which the running script stores the institution
InstKey(inst) == IF mode = "backfill" THEN Stripped(inst.id) ELSE Strip(inst.id)

C7_AssociationDedup ==
    /\ \A db \in {store, conn} : \A a, b \in db.paper_institutions :
          (a[1] = b[1] /\ Stripped(a[2]) = Stripped(b[2])) => a = b
    /\ Alive =>
          \A r \in ProcessedRefs :
              (Strip(r.inst.id) # <<>> /\ ~GeoUnobtainable(r.inst))
                  => \E a \in conn.paper_institutions :
                        /\ a[1] = Stripped(r.work.id)
                        /\ Stripped(a[2]) = Stripped(Strip(r.inst.id))

\* C7 within one script and for institutions with a name
C7_AssociationDedupNamed ==
    Alive =>
        \A r \in ProcessedRefs :
            (/\ Strip(r.inst.id) # <<>>
             /\ ~GeoUnobtainable(r.inst)
             /\ (mode = "backfill" => OrEmpty(r.inst.display_name) # ""))
                => <<Stripped(r.work.id), InstKey(r.inst)>>
                       \in conn.paper_institutions

\* C8: once a page request has failed the run is over: the store is what
\* the last checkpoint committed (what the run found, if there was none),
\* export.py is not started, and nothing moves until another run starts
C8_FatalPageFetchFailure ==
    /\ [](fetch_error =>
            /\ pc = "failed"
            /\ store = checkpoint
            /\ conn = store
            /\ exports = 0)
    /\ [][fetch_error =>
            /\ store' = store
            /\ artifacts' = artifacts
            /\ (fetch_error' => UNCHANGED vars)]_vars

\* a page request has failed after a checkpoint: the store holds what the
\* checkpoint committed, which the run did not find there
C8_Witness ==
    /\ fetch_error
    /\ pc = "failed"
    /\ checkpoint # run_start
    /\ store = checkpoint
    /\ Cardinality(DOMAIN store.papers) > Cardinality(DOMAIN run_start.papers)

\* C9: a single-entity request that fails makes resolve_institution
\* return None: the run goes on, the reference is counted as skipped and
\* gets no institution row and no association row, and its paper is
\* persisted
C9_LookupFailureRecoverable ==
    (Alive /\ mode = "update") =>
        /\ total_skipped_geo = CountRefs(GeoUnobtainable)
        /\ \A r \in ProcessedRefs :
              LET id == Strip(r.inst.id)
              IN (/\ id # <<>>
                  /\ id \notin DOMAIN run_start.institutions
                  /\ InstitutionRequest(remote.institutions,
                         IF StartsWithHttp(id) THEN Stripped(id) ELSE id).status
                       = "error")
                 => /\ id \in DOMAIN inst_cache
                    /\ inst_cache[id] = Absent
                    /\ id \notin DOMAIN conn.institutions
                    /\ \A a \in conn.paper_institutions : a[2] # id
                    /\ Stripped(r.work.id) \in DOMAIN conn.papers

\* an update run has completed although the request for I1 failed: paper
\* W1 is stored, no institution is, and the three references of W1 are
\* counted
C9_Witness ==
    /\ pc = "done"
    /\ mode = "update"
    /\ remote.institutions[<<"I1">>].status = "error"
    /\ processed = <<[work |-> W1, copies |-> 1]>>
    /\ lookups = 2
    /\ total_skipped_geo = 3
    /\ <<"W1">> \in DOMAIN store.papers
    /\ store.institutions = EmptyTable

\* the groups of every page of the collection, as a run with the lower
\* bound `lower` is given them
RECURSIVE AllResults(_, _)
AllResults(lower, cur) ==
    LET i == IF cur = 0 THEN 1 ELSE cur
    IN IF i >= Len(remote.pages) THEN Matching(remote.pages, lower, cur)
       ELSE Matching(remote.pages, lower, cur) \o AllResults(lower, i + 1)

\* C10: export.py is started once per run, after the commit that follows
\* the last page and not before; when it fails the run fails and the
\* store keeps what was committed
C10_CompletionOrdering ==
    /\ [](/\ exports <= 1
          /\ exports = 1 <=> pc \in {"done", "export_failed"}
          /\ pc \in {"export", "done", "export_failed"} =>
                /\ store = conn
                /\ processed = AllResults(from_date, 0)
          /\ pc = "done" => artifacts.written)
    /\ [][/\ exports' > exports => (pc = "export" /\ exports' = exports + 1)
          /\ pc' = "export_failed" => (store' = store /\ artifacts' = artifacts)]_vars

\* a run whose only page is empty has committed and exported
C10_WitnessEmpty ==
    /\ pc = "done"
    /\ processed = <<>>
    /\ cursor = 0
    /\ exports = 1
    /\ artifacts.written

\* export.py has failed after a run that wrote rows: they are committed
C10_WitnessExportFailed ==
    /\ pc = "export_failed"
    /\ exports = 1
    /\ store # run_start
    /\ store = conn

(***************************************************************************)
(* Properties of the exported files                                        *)
(***************************************************************************)
\* the association rows of institution i
AssociationsOf(db, i) == {a \in db.paper_institutions : a[2] = i}

\* the places of the entries of the array with identifier i
EntriesOf(arr, i) == {n \in 1..Len(arr) : arr[n].id = i}

\* C11: the institution array has one entry for each institution with an
\* association row and none for another; paper_count is the number of the
\* institution's association rows; the counts never increase along the
\* array
C11_InstitutionSummary ==
    artifacts.written =>
        LET arr == artifacts.institutions
        IN /\ \A i \in DOMAIN store.institutions :
                 Cardinality(EntriesOf(arr, i)) =
                     IF AssociationsOf(store, i) # {} THEN 1 ELSE 0
           /\ \A n \in 1..Len(arr) :
                 /\ arr[n].id \in DOMAIN store.institutions
                 /\ arr[n].paper_count =
                        Cardinality(AssociationsOf(store, arr[n].id))
           /\ \A m, n \in 1..Len(arr) :
                 m < n => arr[m].paper_count >= arr[n].paper_count

\* the export of a database where one institution has two papers,
\* another one, another none, and a row names an unknown institution
C11_Witness ==
    /\ artifacts.written
    /\ Len(artifacts.institutions) = 2
    /\ artifacts.institutions[1].paper_count = 2
    /\ artifacts.institutions[2].paper_count = 1
    /\ Cardinality(store.paper_institutions) > 3
    /\ \E i \in DOMAIN store.institutions : AssociationsOf(store, i) = {}

\* the papers with an association to an institution of country c
PapersOfCountry(db, c) ==
    {a[1] : a \in {b \in db.paper_institutions :
                     /\ b[2] \in DOMAIN db.institutions
                     /\ db.institutions[b[2]].country_code = c}}

\* C12: papers_by_country has, for every country code that is not empty,
\* the number of distinct papers with an association to an institution of
\* that country (no entry when there is none), and no entry for a null or
\* empty code
C12_CountryNonApportionment ==
    artifacts.written =>
        LET byc == artifacts.meta.papers_by_country
            codes == {store.institutions[i].country_code :
                        i \in DOMAIN store.institutions} \ {None, ""}
        IN /\ \A n \in 1..Len(byc) : byc[n].country_code \in codes
           /\ \A c \in codes :
                 LET at == {n \in 1..Len(byc) : byc[n].country_code = c}
                     papers == PapersOfCountry(store, c)
                 IN /\ Cardinality(at) = IF papers = {} THEN 0 ELSE 1
                    /\ \A n \in at :
                          byc[n].paper_count = Cardinality(papers)

\* the export of a database where paper W1 is associated with two
\* institutions of the US, one of CH and one without a country code
C12_Witness ==
    /\ artifacts.written
    /\ {<<<<"W1">>, <<"I1">>>>, <<<<"W1">>, <<"I3">>>>, <<<<"W1">>, <<"I2">>>>,
        <<<<"W1">>, <<"I4">>>>} \subseteq store.paper_institutions
    /\ Len(artifacts.meta.papers_by_country) = 2
    /\ \A n \in 1..2 : artifacts.meta.papers_by_country[n].paper_count = 1

\* the publication dates of the papers that have one
KnownDates(db) ==
    {db.papers[k].publication_date : k \in DOMAIN db.papers} \ {<<>>}

\* C13: date_range.from and date_range.to of meta.json are the earliest
\* and the latest day among the papers that have a publication date, a
\* paper without one taking no part; both are "" when there is none
C13_MetadataDateRange ==
    pc = "done" =>
        LET ds == KnownDates(store)
        IN artifacts.meta.totals.date_range =
               [from |-> IF ds = {} THEN <<>>
                         ELSE CHOOSE d \in ds : \A e \in ds : DateLeq(d, e),
                to |-> IF ds = {} THEN <<>>
                       ELSE CHOOSE d \in ds : \A e \in ds : DateLeq(e, d)]

\* C13 for the databases whose papers all have a date
C13_DateRangeAllDated ==
    (pc = "done"
        /\ \A k \in DOMAIN store.papers : store.papers[k].publication_date # <<>>) =>
        LET ds == KnownDates(store)
        IN artifacts.meta.totals.date_range =
               [from |-> IF ds = {} THEN <<>>
                         ELSE CHOOSE d \in ds : \A e \in ds : DateLeq(d, e),
                to |-> IF ds = {} THEN <<>>
                       ELSE CHOOSE d \in ds : \A e \in ds : DateLeq(e, d)]

(***************************************************************************)
(* Properties of the Institution Resolver                                  *)
(***************************************************************************)
\* the rows of db for the institution that id names, whatever the form of
\* the key they were stored under
RowsOfInstitution(db, id) ==
    {k \in DOMAIN db.institutions : Stripped(Strip(k)) = Stripped(Strip(id))}

\* C14: a single-entity request is issued for an institution only when
\* the store had no row for it when the run started (within the run the
\* cache answers); an institution a run before has persisted is resolved
\* without a request
C14_ResolutionOrder ==
    \A n \in 1..Len(requested) :
        RowsOfInstitution(run_start, requested[n]) = {}

\* C14 with the store searched for the identifier as the reference
\* spells it
C14_ResolutionOrderRawKey ==
    \A n \in 1..Len(requested) :
        requested[n] \notin DOMAIN run_start.institutions

\* C15: an update run issues at most one single-entity request per
\* identifier, whatever the answer and however many references name it;
\* every request leaves a cache entry, the negative marker when the
\* answer has no coordinates; and a resolve of a cached identifier returns
\* the entry with no request, whatever the store and the remote hold
C15_NegativeCaching ==
    (Alive /\ mode = "update") =>
        /\ lookups = Len(requested)
        /\ \A m, n \in 1..Len(requested) :
              requested[m] = requested[n] => m = n
        /\ \A n \in 1..Len(requested) :
              /\ requested[n] \in DOMAIN inst_cache
              /\ NoRemoteGeo(requested[n]) => inst_cache[requested[n]] = Absent
        /\ \A id \in DOMAIN inst_cache :
              \A db \in {conn, EmptyDB}, api \in InstitutionApis :
                  resolve_institution(id, db, inst_cache, api) =
                      [value |-> inst_cache[id], cache |-> inst_cache,
                       requests |-> 0]

\* an update run has met institution I1 three times in two papers while
\* its request fails, and I2, whose answer has no latitude: one request
\* each, four references skipped
C15_Witness ==
    /\ Completed
    /\ mode = "update"
    /\ processed = <<[work |-> W1, copies |-> 1], [work |-> W3, copies |-> 1]>>
    /\ requested = <<<<OPENALEX_PREFIX, "I1">>, <<OPENALEX_PREFIX, "I2">>>>
    /\ inst_cache[<<OPENALEX_PREFIX, "I1">>] = Absent
    /\ inst_cache[<<OPENALEX_PREFIX, "I2">>] = Absent
    /\ total_skipped_geo = 4

(***************************************************************************)
(* Properties of the tables                                                *)
(***************************************************************************)
\* every association row of db names a paper row and an institution row
\* of db
ForeignKeysHold(db) ==
    \A a \in db.paper_institutions :
        a[1] \in DOMAIN db.papers /\ a[2] \in DOMAIN db.institutions

\* C16: in the committed database, in the database as the connection
\* sees it and in what the last commit left, every association row refers
\* to a paper row and to an institution row
C16_ForeignKeyDiscipline ==
    /\ ForeignKeysHold(store)
    /\ ForeignKeysHold(conn)
    /\ ForeignKeysHold(checkpoint)

\* a run was killed over a database that holds association rows
C16_Witness ==
    /\ pc = "crashed"
    /\ store.paper_institutions # {}
    /\ Cardinality(DOMAIN store.institutions) = 2

\* the groups given to the loop whose record has no identifier once the
\* prefix is removed, and those whose record has one
MalformedPlaces ==
    {n \in 1..Len(processed) : Stripped(processed[n].work.id) = <<>>}

WellFormedPlaces == (1..Len(processed)) \ MalformedPlaces

\* the number of records in the groups at these places
RecordsAt(places) ==
    SumOver(places, [n \in places |-> processed[n].copies])

\* what the record without an identifier leaves alone: no row is keyed by
\* the empty identifier, every new paper and association row belongs to a
\* record with an identifier, and the records with one are all counted
MalformedSkipped ==
    /\ <<>> \notin DOMAIN conn.papers
    /\ \A k \in DOMAIN conn.papers \ DOMAIN run_start.papers :
          \E w \in ProcessedWorks : Stripped(w.id) = k
    /\ \A a \in conn.paper_institutions \ run_start.paper_institutions :
          \E w \in ProcessedWorks : Stripped(w.id) = a[1]
    /\ total_fetched = RecordsAt(WellFormedPlaces)

\* C17: a record without an identifier writes no row, a counter of the
\* run goes up by one for it, and the records after it are processed: the
\* counters of the run (total_fetched, and total_skipped_geo beyond the
\* references it counts) account for every record the loop was given
C17_MalformedRecords ==
    Alive =>
        /\ MalformedSkipped
        /\ (total_fetched - RecordsAt(WellFormedPlaces))
              + (total_skipped_geo - CountRefs(GeoUnobtainable))
              = RecordsAt(MalformedPlaces)

\* C17 without the counter
C17_MalformedSkippedUncounted == Alive => MalformedSkipped

(***************************************************************************)
(* Properties of the pagination                                            *)
(***************************************************************************)
\* the records of a page that have an identifier
WithIdentifier(results) ==
    SelectSeq(results, LAMBDA w : Stripped(w.id) # <<>>)

\* C18: an iteration that goes on asks for the page of the token the page
\* before returned; the loop is left when, and only when, a page returns
\* no token or a request fails (or the process is killed); the records of
\* the page are processed before the loop goes on or is left; and a run
\* that has entered the loop reaches its export, unless a request fails
\* or the process is killed
C18_PaginationTermination ==
    /\ [][(pc = "loop" /\ pc' \in {"loop", "final_commit"}) =>
            LET data == fetch_page(remote.pages, from_date, cursor)
            IN /\ (pc' = "final_commit") <=> (data.next_cursor = 0)
               /\ pc' = "loop" => cursor' = data.next_cursor
               /\ total_fetched' =
                      total_fetched + Len(WithIdentifier(data.results))]_vars
    /\ [][(pc = "loop" /\ pc' # "loop") =>
            \/ pc' = "final_commit"
            \/ pc' = "failed" /\ fetch_error'
            \/ pc' = "crashed"]_vars
    /\ (pc = "loop") ~> (exports = 1 \/ pc \in {"failed", "crashed"})

\* a run has gone through two pages with records and has exported
C18_Witness ==
    /\ pc = "done"
    /\ cursor = 2
    /\ Len(processed) = 2
    /\ total_fetched = 2
    /\ exports = 1

(***************************************************************************)
(* Properties of the two scripts side by side                              *)
(***************************************************************************)
\* the script that is not running
OtherMode == IF mode = "backfill" THEN "update" ELSE "backfill"

\* the loop of the other script, started on the store this run started
\* on, with the lower bound and the pages of this run
OtherLoop ==
    LoopFrom(OtherMode,
             [conn |-> run_start, inst_cache |-> EmptyTable, seen_inst |-> {},
              total_fetched |-> 0, total_skipped_geo |-> 0, lookups |-> 0,
              requested |-> <<>>],
             from_date, 0)

\* C19: when a run has left its loop, the loop of the other script, on
\* the same store, pages and single-entity answers, has written the same
\* rows and counted the same skips
C19_SharedLoop ==
    Completed =>
        /\ conn = OtherLoop.conn
        /\ total_skipped_geo = OtherLoop.total_skipped_geo

\* C19 for the papers table and the count of records alone
C19_SharedLoopPapers ==
    Completed =>
        /\ conn.papers = OtherLoop.conn.papers
        /\ total_fetched = OtherLoop.total_fetched

(***************************************************************************)
(* Properties of the tables and the exported totals                        *)
(***************************************************************************)
\* every institution row of db has an association row
EveryInstitutionAssociated(db) ==
    \A i \in DOMAIN db.institutions : AssociationsOf(db, i) # {}

\* C20: in the committed database, and in what the last commit left,
\* every institution row has an association row; and total_institutions
\* of meta.json is the number of entries of the institution array
C20_InstitutionsAssociated ==
    /\ EveryInstitutionAssociated(store)
    /\ EveryInstitutionAssociated(checkpoint)
    /\ artifacts.written =>
          artifacts.meta.totals.total_institutions = Len(artifacts.institutions)

\* a run after an interrupted one has exported two institutions
C20_Witness ==
    /\ pc = "done"
    /\ prev.outcome = "interrupted"
    /\ artifacts.meta.totals.total_institutions = 2
    /\ Len(artifacts.institutions) = 2

====
